---- MODULE Spec2Model ----
(***************************************************************************)
(* Model of the MCP agent chat microservice (mcp-agent-service/main.py):   *)
(* the process-wide CircuitBreaker, create_mcp_server_with_retry, the      *)
(* /chat handler with its asyncio.timeout envelope, and /health.           *)
(*                                                                         *)
(* The handlers are asyncio coroutines on one event loop: a handler runs   *)
(* without interleaving from one suspension point (await of a sleep, of    *)
(* the MCP connection, of the agent run) to the next.  A request's pc is   *)
(* either a suspension point ("idle", "backoff", "connecting", "running")  *)
(* or a position inside a running block ("check", "attempt", "done": the   *)
(* response is being returned); a handler is started or resumed only when  *)
(* no other handler is inside a running block.                             *)
(*                                                                         *)
(* Spec is the service with overlapping requests, SpecSeq the service      *)
(* with requests sent one at a time, SpecFirstTry the latter with a        *)
(* constructor that never raises, SpecLive the service with fairness.      *)
(***************************************************************************)
EXTENDS Integers, Sequences, FiniteSets, TLC

\* ---------------------------------------------------------------- bounds
NumRequests == 2
MaxArrivals == 4

\* ------------------------------------------------------ program constants
FailureThreshold == 5
RecoveryTimeout == 60
MaxRetries == 3
BaseDelay == 2
TurnLimit == 5

Requests == 1..NumRequests

CLOSED == "closed"
OPEN == "open"
HALF_OPEN == "half_open"

\* Numbers of user-role messages in the conversation history of a request.
HistoryUserCounts == {TurnLimit - 1, TurnLimit}

\* The session_id field of a request; "" stands for the values that count
\* as not given (None, the default, and the empty string).
SessionIds == {"", "session-1"}
Uuid4 == "uuid4"

\* The text of an exception, as the set of the markers the classifier looks
\* for that occur in its lower-cased text.
ErrorMessages ==
    { {}, {"timeout"}, {"connection", "connect"}, {"connect"}, {"invalid url"},
      {"timeout", "connection", "connect"} }

VARIABLES
    mcp_circuit_breaker,  \* [state, failure_count, last_failure_time]
    now,                  \* time.time()
    pc,                   \* position of each chat request
    attempt,              \* loop variable of create_mcp_server_with_retry
    wake,                 \* <<t>>: asyncio.sleep returns at t; <<>>: not asleep
    deadline,             \* TRUE: the request is inside asyncio.timeout(180)
    user_message_count,   \* of each request
    session_id,           \* of each request: the given one or a fresh one
    result,               \* << r >>: Runner.run returned r to the request
    log,                  \* what each request's acquisition did, in order
    mcp_server,           \* 0: none; k: the object constructed by attempt k
    connection,           \* "none", "open" or "closed": the MCP connection
    error,                \* the exception caught by the request's handler
    response,             \* the ChatResponse of each finished request
    health,               \* the /health response being returned
    arrivals,             \* number of chat requests received so far
    count_at_arrival      \* history, kept when requests are sent one at a
                          \* time: failure_count when the latest arrived

vars == << mcp_circuit_breaker, now, pc, attempt, wake, deadline,
           user_message_count, session_id, result, log, mcp_server,
           connection, error, response, health, arrivals, count_at_arrival >>

\* ------------------------------------------ extract_tool_usage_from_result

\* Optional values: None is << >>, a value v is << v >>.
None == << >>
Some(v) == << v >>

\* A key a dictionary does not have, an attribute an object does not have.
Missing == "<missing>"

\* Elements of result.tool_calls: dictionaries with some of the keys name,
\* arguments and result, and a value that is no dictionary (it has no get).
ListTasksCall ==
    [isdict |-> TRUE, name |-> "list_tasks", arguments |-> "{}",
     result |-> "2 tasks"]
CreateTaskCall ==
    [isdict |-> TRUE, name |-> "create_task", arguments |-> Missing,
     result |-> Missing]
NotADict ==
    [isdict |-> FALSE, name |-> Missing, arguments |-> Missing,
     result |-> Missing]

\* Elements of result.items: objects with a type attribute (a string, or
\* None, in which 'tool' cannot be looked for) or without one.
ToolCallItem ==
    [type |-> "tool_call_item", name |-> "search_tasks",
     arguments |-> "{q}", output |-> Missing]
ToolOutputItem ==
    [type |-> "tool_call_output_item", name |-> Missing,
     arguments |-> Missing, output |-> "1 task"]
MessageItem ==
    [type |-> "message_output_item", name |-> Missing,
     arguments |-> Missing, output |-> Missing]
UntypedItem ==
    [type |-> Missing, name |-> "update_task", arguments |-> "{}",
     output |-> "ok"]
NoneTypeItem ==
    [type |-> "None", name |-> "delete_task", arguments |-> "{}",
     output |-> "ok"]

\* An attribute of the result: absent, or present with a list as value.
NoAttribute == [has |-> FALSE, val |-> << >>]
Attribute(v) == [has |-> TRUE, val |-> v]

\* The results Runner.run may hand back, as far as the normalizer looks.
RawResults ==
    { [tool_calls |-> a, items |-> b] :
        a \in { NoAttribute, Attribute(<< >>),
                Attribute(<< CreateTaskCall, ListTasksCall >>),
                Attribute(<< ListTasksCall, NotADict >>) },
        b \in { NoAttribute, Attribute(<< MessageItem >>),
                Attribute(<< ToolOutputItem, UntypedItem, MessageItem,
                             ToolCallItem >>),
                Attribute(<< ToolCallItem, NoneTypeItem >>) } }

\* d.get(key, default) and getattr(o, key, default).
Get(d, key, default) == IF d[key] = Missing THEN default ELSE d[key]

\* 'tool' in item.type, for the type tags above.
ContainsTool(type) == type \in {"tool_call_item", "tool_call_output_item"}

\* The loop of lines 104-112 over result.tool_calls: the records appended,
\* or the exception of calling get on a value that has none.
RECURSIVE FromToolCalls(_)
FromToolCalls(s) ==
    IF s = << >>
    THEN [raised |-> FALSE, calls |-> << >>]
    ELSE IF ~Head(s).isdict
         THEN [raised |-> TRUE, calls |-> << >>]
         ELSE LET rest == FromToolCalls(Tail(s))
                  data == [function |->
                              [name |-> Get(Head(s), "name", "unknown"),
                               arguments |-> Get(Head(s), "arguments", "{}")],
                           content |-> Get(Head(s), "result", "No result")]
              IN  IF rest.raised THEN rest
                  ELSE [raised |-> FALSE, calls |-> << data >> \o rest.calls]

\* The loop of lines 116-125 over result.items.
RECURSIVE FromItems(_)
FromItems(s) ==
    IF s = << >>
    THEN [raised |-> FALSE, calls |-> << >>]
    ELSE IF Head(s).type = Missing
         THEN FromItems(Tail(s))
         ELSE IF Head(s).type = "None"
              THEN [raised |-> TRUE, calls |-> << >>]
              ELSE LET rest == FromItems(Tail(s))
                       data == [function |->
                                   [name |-> Get(Head(s), "name", "unknown"),
                                    arguments |->
                                        Get(Head(s), "arguments", "{}")],
                                content |->
                                    Get(Head(s), "output", "No result")]
                   IN  IF rest.raised \/ ~ContainsTool(Head(s).type)
                       THEN rest
                       ELSE [raised |-> FALSE,
                             calls |-> << data >> \o rest.calls]

\* Mutant of extract_tool_usage_from_result: the test "if tool_calls" of
\* line 127 is missing.
extract_tool_usage_NoEmptyTest(r) ==
    LET got == IF r.tool_calls.has /\ r.tool_calls.val # << >>
               THEN FromToolCalls(r.tool_calls.val)
               ELSE IF r.items.has /\ r.items.val # << >>
                    THEN FromItems(r.items.val)
                    ELSE [raised |-> FALSE, calls |-> << >>]
    IN  IF got.raised
        THEN None
        ELSE Some([tool_calls |-> got.calls, has_tools |-> TRUE])

\* extract_tool_usage_from_result (lines 96-137): None or the dictionary.
extract_tool_usage_from_result(r) ==
    LET got == IF r.tool_calls.has /\ r.tool_calls.val # << >>
               THEN FromToolCalls(r.tool_calls.val)
               ELSE IF r.items.has /\ r.items.val # << >>
                    THEN FromItems(r.items.val)
                    ELSE [raised |-> FALSE, calls |-> << >>]
    IN  IF got.raised
        THEN None
        ELSE IF got.calls # << >>
             THEN Some([tool_calls |-> got.calls, has_tools |-> TRUE])
             ELSE None

\* ------------------------------------------------------- CircuitBreaker

NewBreaker ==
    [state |-> CLOSED, failure_count |-> 0, last_failure_time |-> 0]

\* Mutant of can_execute: the recovery test is >= instead of >.
can_execute_AtTimeout(cb, t) ==
    IF cb.state = CLOSED
    THEN [ret |-> TRUE, cb |-> cb]
    ELSE IF cb.state = OPEN
         THEN IF t - cb.last_failure_time >= RecoveryTimeout
              THEN [ret |-> TRUE, cb |-> [cb EXCEPT !.state = HALF_OPEN]]
              ELSE [ret |-> FALSE, cb |-> cb]
         ELSE [ret |-> TRUE, cb |-> cb]

\* Mutant of can_execute: a denial re-arms the recovery timeout.
can_execute_DenialRearms(cb, t) ==
    IF cb.state = CLOSED
    THEN [ret |-> TRUE, cb |-> cb]
    ELSE IF cb.state = OPEN
         THEN IF t - cb.last_failure_time > RecoveryTimeout
              THEN [ret |-> TRUE, cb |-> [cb EXCEPT !.state = HALF_OPEN]]
              ELSE [ret |-> FALSE, cb |-> [cb EXCEPT !.last_failure_time = t]]
         ELSE [ret |-> TRUE, cb |-> cb]

\* Mutant of can_execute: an OPEN breaker never lets a call through.
can_execute_NeverRecovers(cb, t) ==
    IF cb.state = OPEN
    THEN [ret |-> FALSE, cb |-> cb]
    ELSE [ret |-> TRUE, cb |-> cb]

\* can_execute: the returned value and the breaker after the call.
can_execute(cb, t) ==
    IF cb.state = CLOSED
    THEN [ret |-> TRUE, cb |-> cb]
    ELSE IF cb.state = OPEN
         THEN IF t - cb.last_failure_time > RecoveryTimeout
              THEN [ret |-> TRUE, cb |-> [cb EXCEPT !.state = HALF_OPEN]]
              ELSE [ret |-> FALSE, cb |-> cb]
         ELSE [ret |-> TRUE, cb |-> cb]

\* Mutant of record_success: the count is reset, the state is left alone.
record_success_KeepsState(cb) ==
    [cb EXCEPT !.failure_count = 0]

\* Mutant of record_success: the state is set, the count is left alone.
record_success_KeepsCount(cb) ==
    [cb EXCEPT !.state = CLOSED]

record_success(cb) ==
    [cb EXCEPT !.failure_count = 0, !.state = CLOSED]

\* Mutant of record_failure: opens above the threshold, not at it.
record_failure_Above(cb, t) ==
    LET n == cb.failure_count + 1 IN
    [cb EXCEPT !.failure_count = n,
               !.last_failure_time = t,
               !.state = IF n > FailureThreshold THEN OPEN ELSE @]

\* Mutant of record_failure: opens only when the count is the threshold.
record_failure_Exactly(cb, t) ==
    LET n == cb.failure_count + 1 IN
    [cb EXCEPT !.failure_count = n,
               !.last_failure_time = t,
               !.state = IF n = FailureThreshold THEN OPEN ELSE @]

\* Mutant of record_failure: every failure opens the breaker.
record_failure_OpensAtOnce(cb, t) ==
    [cb EXCEPT !.failure_count = cb.failure_count + 1,
               !.last_failure_time = t,
               !.state = OPEN]

record_failure(cb, t) ==
    LET n == cb.failure_count + 1 IN
    [cb EXCEPT !.failure_count = n,
               !.last_failure_time = t,
               !.state = IF n >= FailureThreshold THEN OPEN ELSE @]

\* --------------------------------------------------------------- helpers

NoError == [raised |-> FALSE, text |-> {}, state |-> "none"]
Raised(text) == [raised |-> TRUE, text |-> text, state |-> "none"]

\* The exception of line 156; its text surfaces the breaker's state.
BreakerError(cb) ==
    [raised |-> TRUE, text |-> {"circuit breaker"}, state |-> cb.state]

NoResponse ==
    [kind |-> "none", session_id |-> "", user_message_count |-> 0,
     tool_usage |-> None]
Response(kind, sid, n) ==
    [kind |-> kind, session_id |-> sid, user_message_count |-> n,
     tool_usage |-> None]

\* The if/elif chain of the inner handler (lines 297-306).
Classify(text) ==
    IF "circuit breaker" \in text THEN "breaker_unavailable"
    ELSE IF "timeout" \in text THEN "connection_timed_out"
    ELSE IF "connection" \in text \/ "connect" \in text THEN "unable_to_connect"
    ELSE IF "invalid url" \in text THEN "configuration_issue"
    ELSE "service_error"

Entry(op, arg) == [op |-> op, arg |-> arg]

RECURSIVE Pow2(_)
Pow2(n) == IF n = 0 THEN 1 ELSE 2 * Pow2(n - 1)

\* Mutant of Delay: the same delay before every retry.
Delay_Constant(a) == BaseDelay

Delay(a) == BaseDelay * Pow2(a)

Suspended == {"idle", "backoff", "connecting", "running"}

NoHealth == [state |-> "none", failure_count |-> 0, can_execute |-> FALSE]

\* Mutant of LoopFree: the handlers run on threads and interleave anywhere.
LoopFree_Preemptive == TRUE

\* The event loop is free: no handler is inside a running block.
LoopFree ==
    /\ \A q \in Requests : pc[q] \in Suspended
    /\ health = NoHealth

TypeOK ==
    /\ mcp_circuit_breaker.state \in {CLOSED, OPEN, HALF_OPEN}
    /\ mcp_circuit_breaker.failure_count \in Nat
    /\ now \in Nat
    /\ arrivals \in 0..MaxArrivals
    /\ pc \in [Requests -> Suspended \cup {"check", "attempt", "done"}]
    /\ attempt \in [Requests -> 0..(MaxRetries - 1)]

Init ==
    /\ mcp_circuit_breaker = NewBreaker
    /\ now = 0
    /\ pc = [p \in Requests |-> "idle"]
    /\ attempt = [p \in Requests |-> 0]
    /\ wake = [p \in Requests |-> << >>]
    /\ deadline = [p \in Requests |-> FALSE]
    /\ user_message_count = [p \in Requests |-> 0]
    /\ session_id = [p \in Requests |-> ""]
    /\ result = [p \in Requests |-> None]
    /\ log = [p \in Requests |-> << >>]
    /\ mcp_server = [p \in Requests |-> 0]
    /\ connection = [p \in Requests |-> "none"]
    /\ error = [p \in Requests |-> NoError]
    /\ response = [p \in Requests |-> NoResponse]
    /\ health = NoHealth
    /\ arrivals = 0
    /\ count_at_arrival = 0

\* ------------------------------------------------------------- handlers

\* Mutant of OuterHandler: the exception leaves chat, no response is made.
OuterHandler_Propagates(p, e) ==
    /\ error' = [error EXCEPT ![p] = e]
    /\ pc' = [pc EXCEPT ![p] = "done"]
    /\ UNCHANGED response

\* The outermost handler of chat (lines 314-321): no breaker call.
OuterHandler(p, e) ==
    /\ error' = [error EXCEPT ![p] = e]
    /\ response' = [response EXCEPT ![p] =
                       Response("technical_difficulties", session_id[p],
                                user_message_count[p])]
    /\ pc' = [pc EXCEPT ![p] = "done"]

\* The handler of the inner try for Exception (lines 291-312), entered with
\* the breaker cb.
InnerHandler(p, e, cb) ==
    /\ mcp_circuit_breaker' = record_failure(cb, now)
    /\ error' = [error EXCEPT ![p] = e]
    /\ response' = [response EXCEPT ![p] =
                       Response(Classify(e.text), session_id[p],
                                user_message_count[p])]
    /\ pc' = [pc EXCEPT ![p] = "done"]

\* Mutant of TimeoutHandler: the timeout is not reported to the breaker.
TimeoutHandler_NoRecord(p, cb) ==
    /\ mcp_circuit_breaker' = cb
    /\ error' = [error EXCEPT ![p] =
                    [raised |-> TRUE, text |-> {}, state |-> "deadline"]]
    /\ response' = [response EXCEPT ![p] =
                       Response("slow_service", session_id[p],
                                user_message_count[p])]
    /\ pc' = [pc EXCEPT ![p] = "done"]

\* The handler of the inner try for asyncio.TimeoutError (lines 282-289).
TimeoutHandler(p, cb) ==
    /\ mcp_circuit_breaker' = record_failure(cb, now)
    /\ error' = [error EXCEPT ![p] =
                    [raised |-> TRUE, text |-> {}, state |-> "deadline"]]
    /\ response' = [response EXCEPT ![p] =
                       Response("slow_service", session_id[p],
                                user_message_count[p])]
    /\ pc' = [pc EXCEPT ![p] = "done"]

\* Mutant of Released: leaving the block leaves the connection as it is.
Released_Leaks(c) == c

\* async with mcp_server: __aexit__ closes a connection that was opened.
Released(c) == IF c = "open" THEN "closed" ELSE c

\* Mutant of Begin: the limit test is >= instead of >.
Begin_AtLimit(p, n, sid) ==
    /\ pc[p] = "idle"
    /\ \A q \in Requests : q < p => pc[q] # "idle"
    /\ LoopFree
    /\ arrivals < MaxArrivals
    /\ arrivals' = arrivals + 1
    /\ user_message_count' = [user_message_count EXCEPT ![p] = 1 + n]
    /\ session_id' = [session_id EXCEPT
                        ![p] = IF sid = "" THEN Uuid4 ELSE sid]
    /\ IF 1 + n >= TurnLimit
       THEN /\ response' = [response EXCEPT ![p] =
                               Response("limit_reached", session_id'[p], 1 + n)]
            /\ pc' = [pc EXCEPT ![p] = "done"]
       ELSE /\ pc' = [pc EXCEPT ![p] = "check"]
            /\ UNCHANGED response
    /\ UNCHANGED << result, mcp_circuit_breaker, now, attempt, wake, deadline,
                    log,
                    mcp_server, connection, error, health >>

\* POST /chat arrives with n user-role messages in its history: lines
\* 223-248, up to the call of create_mcp_server_with_retry.  The request
\* takes the first free slot (the slots are interchangeable).
Begin(p, n, sid) ==
    /\ pc[p] = "idle"
    /\ \A q \in Requests : q < p => pc[q] # "idle"
    /\ LoopFree
    /\ arrivals < MaxArrivals
    /\ arrivals' = arrivals + 1
    /\ user_message_count' = [user_message_count EXCEPT ![p] = 1 + n]
    /\ session_id' = [session_id EXCEPT
                        ![p] = IF sid = "" THEN Uuid4 ELSE sid]
    /\ IF 1 + n > TurnLimit
       THEN /\ response' = [response EXCEPT ![p] =
                               Response("limit_reached", session_id'[p], 1 + n)]
            /\ pc' = [pc EXCEPT ![p] = "done"]
       ELSE /\ pc' = [pc EXCEPT ![p] = "check"]
            /\ UNCHANGED response
    /\ UNCHANGED << result, mcp_circuit_breaker, now, attempt, wake, deadline,
                    log,
                    mcp_server, connection, error, health >>

\* Overlapping requests are sent without a session_id; the field only
\* travels from the request to its response.
Arrive(p, n) ==
    /\ Begin(p, n, "")
    /\ UNCHANGED count_at_arrival

\* create_mcp_server_with_retry, lines 155-156: the breaker check before the
\* loop.  A denial raises, and the exception reaches the outermost handler.
Check(p) ==
    /\ pc[p] = "check"
    /\ LET r == can_execute(mcp_circuit_breaker, now) IN
       /\ mcp_circuit_breaker' = r.cb
       /\ log' = [log EXCEPT ![p] =
                     Append(@, Entry("can_execute", IF r.ret THEN 1 ELSE 0))]
       /\ IF r.ret
          THEN /\ pc' = [pc EXCEPT ![p] = "attempt"]
               /\ attempt' = [attempt EXCEPT ![p] = 0]
               /\ UNCHANGED << error, response >>
          ELSE /\ OuterHandler(p, BreakerError(r.cb))
               /\ UNCHANGED attempt
    /\ UNCHANGED << session_id, result, now, wake, deadline,
                    user_message_count, mcp_server,
                    connection, health, arrivals,
                    count_at_arrival >>

\* Mutant of Attempt: the loop gives up one attempt early.
Attempt_GivesUpEarly(p, ok, e) ==
    /\ pc[p] = "attempt"
    /\ IF ok
       THEN /\ mcp_circuit_breaker' = record_success(mcp_circuit_breaker)
            /\ log' = [log EXCEPT ![p] =
                          @ \o << Entry("attempt", attempt[p] + 1),
                                  Entry("record_success", 0) >>]
            /\ mcp_server' = [mcp_server EXCEPT ![p] = attempt[p] + 1]
            /\ deadline' = [deadline EXCEPT ![p] = TRUE]
            /\ pc' = [pc EXCEPT ![p] = "connecting"]
            /\ UNCHANGED << wake, error, response >>
       ELSE /\ mcp_circuit_breaker' = record_failure(mcp_circuit_breaker, now)
            /\ IF attempt[p] < MaxRetries - 2
               THEN /\ log' = [log EXCEPT ![p] =
                                  @ \o << Entry("attempt", attempt[p] + 1),
                                          Entry("record_failure", 0),
                                          Entry("sleep", Delay(attempt[p])) >>]
                    /\ wake' = [wake EXCEPT ![p] = << now + Delay(attempt[p]) >>]
                    /\ pc' = [pc EXCEPT ![p] = "backoff"]
                    /\ UNCHANGED << error, response >>
               ELSE /\ log' = [log EXCEPT ![p] =
                                  @ \o << Entry("attempt", attempt[p] + 1),
                                          Entry("record_failure", 0) >>]
                    /\ OuterHandler(p, Raised(e))
                    /\ UNCHANGED wake
            /\ UNCHANGED << mcp_server, deadline >>
    /\ UNCHANGED << session_id, result, now, attempt, user_message_count,
                    connection, health, arrivals,
                    count_at_arrival >>

\* One iteration of the loop of lines 158-194.  The constructor returns
\* (ok) or raises e.  On success the function returns and chat goes on to
\* arm asyncio.timeout and to suspend in mcp_server.__aenter__ (252-253).
Attempt(p, ok, e) ==
    /\ pc[p] = "attempt"
    /\ IF ok
       THEN /\ mcp_circuit_breaker' = record_success(mcp_circuit_breaker)
            /\ log' = [log EXCEPT ![p] =
                          @ \o << Entry("attempt", attempt[p] + 1),
                                  Entry("record_success", 0) >>]
            /\ mcp_server' = [mcp_server EXCEPT ![p] = attempt[p] + 1]
            /\ deadline' = [deadline EXCEPT ![p] = TRUE]
            /\ pc' = [pc EXCEPT ![p] = "connecting"]
            /\ UNCHANGED << wake, error, response >>
       ELSE /\ mcp_circuit_breaker' = record_failure(mcp_circuit_breaker, now)
            /\ IF attempt[p] < MaxRetries - 1
               THEN /\ log' = [log EXCEPT ![p] =
                                  @ \o << Entry("attempt", attempt[p] + 1),
                                          Entry("record_failure", 0),
                                          Entry("sleep", Delay(attempt[p])) >>]
                    /\ wake' = [wake EXCEPT ![p] = << now + Delay(attempt[p]) >>]
                    /\ pc' = [pc EXCEPT ![p] = "backoff"]
                    /\ UNCHANGED << error, response >>
               ELSE /\ log' = [log EXCEPT ![p] =
                                  @ \o << Entry("attempt", attempt[p] + 1),
                                          Entry("record_failure", 0) >>]
                    /\ OuterHandler(p, Raised(e))
                    /\ UNCHANGED wake
            /\ UNCHANGED << mcp_server, deadline >>
    /\ UNCHANGED << session_id, result, now, attempt, user_message_count,
                    connection, health, arrivals,
                    count_at_arrival >>

\* asyncio.sleep(delay) returns (line 192): the loop goes to its next
\* iteration.
Wake(p) ==
    /\ pc[p] = "backoff"
    /\ LoopFree
    /\ now >= wake[p][1]
    /\ attempt' = [attempt EXCEPT ![p] = @ + 1]
    /\ wake' = [wake EXCEPT ![p] = << >>]
    /\ pc' = [pc EXCEPT ![p] = "attempt"]
    /\ UNCHANGED << session_id, result, mcp_circuit_breaker, now, deadline,
                    user_message_count,
                    log, mcp_server, connection, error, response, health, arrivals,
                    count_at_arrival >>

\* mcp_server.__aenter__ returns: the agent and the session are created and
\* the handler suspends in Runner.run (lines 253-267).
Connected(p) ==
    /\ pc[p] = "connecting"
    /\ LoopFree
    /\ connection' = [connection EXCEPT ![p] = "open"]
    /\ pc' = [pc EXCEPT ![p] = "running"]
    /\ UNCHANGED << session_id, result, mcp_circuit_breaker, now, attempt,
                    wake, deadline,
                    user_message_count, log, mcp_server, error, response,
                    health, arrivals,
                    count_at_arrival >>

\* mcp_server.__aenter__ raises e.
ConnectFails(p, e) ==
    /\ pc[p] = "connecting"
    /\ LoopFree
    /\ InnerHandler(p, Raised(e), mcp_circuit_breaker)
    /\ deadline' = [deadline EXCEPT ![p] = FALSE]
    /\ UNCHANGED << session_id, result, now, attempt, wake,
                    user_message_count, log, mcp_server,
                    connection, health, arrivals,
                    count_at_arrival >>

\* Runner.run returns: lines 270-280, then __aexit__.
AgentReturns(p) ==
    /\ pc[p] = "running"
    /\ LoopFree
    /\ mcp_circuit_breaker' = record_success(mcp_circuit_breaker)
    /\ connection' = [connection EXCEPT ![p] = Released(@)]
    /\ \E r \in RawResults :
          /\ result' = [result EXCEPT ![p] = Some(r)]
          /\ response' = [response EXCEPT ![p] =
                [Response("final_output", session_id[p],
                          user_message_count[p])
                   EXCEPT !.tool_usage = extract_tool_usage_from_result(r)]]
    /\ deadline' = [deadline EXCEPT ![p] = FALSE]
    /\ pc' = [pc EXCEPT ![p] = "done"]
    /\ UNCHANGED << session_id, now, attempt, wake, user_message_count, log,
                    mcp_server,
                    error, health, arrivals,
                    count_at_arrival >>

\* Runner.run raises e: __aexit__, then the inner handler.
AgentFails(p, e) ==
    /\ pc[p] = "running"
    /\ LoopFree
    /\ connection' = [connection EXCEPT ![p] = Released(@)]
    /\ InnerHandler(p, Raised(e), mcp_circuit_breaker)
    /\ deadline' = [deadline EXCEPT ![p] = FALSE]
    /\ UNCHANGED << session_id, result, now, attempt, wake,
                    user_message_count, log, mcp_server,
                    health, arrivals,
                    count_at_arrival >>

\* asyncio.timeout(180) expires while the handler is suspended inside it:
\* the suspended call is cancelled, __aexit__ runs, TimeoutError is handled.
\* The 180 s are not counted: the expiry is an event that can come at any
\* time while the handler is suspended inside the envelope.
TimeoutFires(p) ==
    /\ pc[p] \in {"connecting", "running"}
    /\ LoopFree
    /\ deadline[p]
    /\ connection' = [connection EXCEPT ![p] = Released(@)]
    /\ TimeoutHandler(p, mcp_circuit_breaker)
    /\ deadline' = [deadline EXCEPT ![p] = FALSE]
    /\ UNCHANGED << session_id, result, now, attempt, wake,
                    user_message_count, log, mcp_server,
                    health, arrivals,
                    count_at_arrival >>

\* The response has been sent; the request's objects are gone.
Finish(p) ==
    /\ pc[p] = "done"
    /\ pc' = [pc EXCEPT ![p] = "idle"]
    /\ attempt' = [attempt EXCEPT ![p] = 0]
    /\ user_message_count' = [user_message_count EXCEPT ![p] = 0]
    /\ session_id' = [session_id EXCEPT ![p] = ""]
    /\ result' = [result EXCEPT ![p] = None]
    /\ log' = [log EXCEPT ![p] = << >>]
    /\ mcp_server' = [mcp_server EXCEPT ![p] = 0]
    /\ connection' = [connection EXCEPT ![p] = "none"]
    /\ error' = [error EXCEPT ![p] = NoError]
    /\ response' = [response EXCEPT ![p] = NoResponse]
    /\ UNCHANGED << mcp_circuit_breaker, now, wake, deadline, health, arrivals,
                    count_at_arrival >>

\* GET /health (lines 139-149): state and failure_count are read, then
\* can_execute is called.
HealthCheck ==
    /\ LoopFree
    /\ LET r == can_execute(mcp_circuit_breaker, now) IN
       /\ health' = [state |-> mcp_circuit_breaker.state,
                     failure_count |-> mcp_circuit_breaker.failure_count,
                     can_execute |-> r.ret]
       /\ mcp_circuit_breaker' = r.cb
    /\ UNCHANGED << session_id, result, now, pc, attempt, wake, deadline,
                    user_message_count,
                    log, mcp_server, connection, error, response, arrivals,
                    count_at_arrival >>

\* The /health response has been sent.
HealthReturn ==
    /\ health # NoHealth
    /\ health' = NoHealth
    /\ UNCHANGED << session_id, result, mcp_circuit_breaker, now, pc, attempt,
                    wake, deadline,
                    user_message_count, log, mcp_server, connection, error,
                    response, arrivals,
                    count_at_arrival >>

\* ----------------------------------------------------------------- time

\* The pending timers: the sleeps.
Timers == { wake[p][1] : p \in { q \in Requests : wake[q] # << >> } }

\* The instants at which the breaker's answer changes.
BreakerInstants ==
    IF mcp_circuit_breaker.state = OPEN
    THEN { mcp_circuit_breaker.last_failure_time + RecoveryTimeout,
           mcp_circuit_breaker.last_failure_time + RecoveryTimeout + 1 }
    ELSE {}

\* Time passes, while the event loop is idle, to the next instant at which
\* something can happen; it does not pass a pending timer.
Tick ==
    /\ LoopFree
    /\ \E t \in Timers \cup BreakerInstants :
          /\ t > now
          /\ \A u \in Timers : t <= u
          /\ now' = t
    /\ UNCHANGED << session_id, result, mcp_circuit_breaker, pc, attempt,
                    wake, deadline,
                    user_message_count, log, mcp_server, connection, error,
                    response, health, arrivals,
                    count_at_arrival >>

\* Every step but the arrival of a chat request.
Proceed ==
    \/ \E p \in Requests : Check(p)
    \/ \E p \in Requests, ok \in BOOLEAN, e \in ErrorMessages : Attempt(p, ok, e)
    \/ \E p \in Requests : Wake(p)
    \/ \E p \in Requests : Connected(p)
    \/ \E p \in Requests, e \in ErrorMessages : ConnectFails(p, e)
    \/ \E p \in Requests : AgentReturns(p)
    \/ \E p \in Requests, e \in ErrorMessages : AgentFails(p, e)
    \/ \E p \in Requests : TimeoutFires(p)
    \/ \E p \in Requests : Finish(p)
    \/ HealthCheck
    \/ HealthReturn
    \/ Tick

\* The service: chat requests arrive while others are in flight.
Next ==
    \/ \E p \in Requests, n \in HistoryUserCounts : Arrive(p, n)
    \/ Proceed

Spec == Init /\ [][Next]_vars

\* The service with chat requests sent one at a time: a request arrives
\* only when no other is in flight.
ArriveAlone(p, n) ==
    /\ \A q \in Requests : pc[q] = "idle"
    /\ \E sid \in SessionIds : Begin(p, n, sid)
    /\ count_at_arrival' = mcp_circuit_breaker.failure_count

NextSeq ==
    \/ \E p \in Requests, n \in HistoryUserCounts : ArriveAlone(p, n)
    \/ Proceed

SpecSeq == Init /\ [][NextSeq]_vars

\* The service with chat requests sent one at a time and a constructor
\* MCPServerStdio that never raises: every acquisition returns from its
\* first attempt, nothing sleeps.
NextFirstTry ==
    \/ \E p \in Requests, n \in HistoryUserCounts : ArriveAlone(p, n)
    \/ \E p \in Requests : Check(p)
    \/ \E p \in Requests : Attempt(p, TRUE, {})
    \/ \E p \in Requests : Connected(p)
    \/ \E p \in Requests, e \in ErrorMessages : ConnectFails(p, e)
    \/ \E p \in Requests : AgentReturns(p)
    \/ \E p \in Requests, e \in ErrorMessages : AgentFails(p, e)
    \/ \E p \in Requests : TimeoutFires(p)
    \/ \E p \in Requests : Finish(p)
    \/ HealthCheck
    \/ HealthReturn

SpecFirstTry == Init /\ [][NextFirstTry]_vars

\* The breaker denies execution: can_execute would return False now.
Denies ==
    /\ mcp_circuit_breaker.state = OPEN
    /\ now - mcp_circuit_breaker.last_failure_time <= RecoveryTimeout

\* A chat request that is turned away at once, by the turn limit (lines
\* 234-239) or by the breaker (line 156, after this step): lines 223-248 as
\* in Begin.  Such a request leaves nothing behind, and any number of them
\* may come: they are not counted in arrivals.
ArriveTurnedAway(p, n) ==
    /\ 1 + n > TurnLimit \/ Denies
    /\ pc[p] = "idle"
    /\ \A q \in Requests : q < p => pc[q] # "idle"
    /\ LoopFree
    /\ user_message_count' = [user_message_count EXCEPT ![p] = 1 + n]
    /\ session_id' = [session_id EXCEPT ![p] = Uuid4]
    /\ IF 1 + n > TurnLimit
       THEN /\ response' = [response EXCEPT ![p] =
                               Response("limit_reached", Uuid4, 1 + n)]
            /\ pc' = [pc EXCEPT ![p] = "done"]
       ELSE /\ pc' = [pc EXCEPT ![p] = "check"]
            /\ UNCHANGED response
    /\ UNCHANGED << result, mcp_circuit_breaker, now, attempt, wake, deadline,
                    log, mcp_server, connection, error, health, arrivals,
                    count_at_arrival >>

\* A chat request that the breaker will let through.
ArriveLetThrough(p, n) ==
    /\ ~(1 + n > TurnLimit \/ Denies)
    /\ Arrive(p, n)

\* The service for as long as it runs: the requests that are turned away
\* come without bound, those that are let through are counted.
NextLive ==
    \/ \E p \in Requests, n \in HistoryUserCounts : ArriveLetThrough(p, n)
    \/ \E p \in Requests, n \in HistoryUserCounts : ArriveTurnedAway(p, n)
    \/ Proceed

\* A chat request within the turn limit arrives; it goes on to can_execute.
ChatArrives ==
    \E p \in Requests :
        \/ ArriveLetThrough(p, TurnLimit - 1)
        \/ ArriveTurnedAway(p, TurnLimit - 1)

\* Time advances; chat requests keep arriving; the event loop runs every
\* handler that is running or whose sleep is over (one thread, callbacks
\* in order); the constructor returns or raises; asyncio.timeout ends a
\* connection or an agent run that does not end by itself.
Fairness ==
    /\ SF_vars(Tick)
    /\ SF_vars(ChatArrives)
    /\ WF_vars(HealthReturn)
    /\ \A p \in Requests :
          /\ WF_vars(Check(p))
          /\ WF_vars(\E ok \in BOOLEAN, e \in ErrorMessages : Attempt(p, ok, e))
          /\ WF_vars(Finish(p))
          /\ SF_vars(Wake(p))
          /\ SF_vars(TimeoutFires(p))

SpecLive == Init /\ [][NextLive]_vars /\ Fairness

\* ----------------------------------------------------------- properties

\* A step in which record_failure is called (no step calls it twice, and
\* nothing else raises failure_count).
FailureRecorded ==
    mcp_circuit_breaker'.failure_count = mcp_circuit_breaker.failure_count + 1

\* C1: in every reachable state, the breaker being OPEN implies that
\* failure_count is at least the failure threshold.
C1_OpenImpliesThreshold ==
    mcp_circuit_breaker.state = OPEN
        => mcp_circuit_breaker.failure_count >= FailureThreshold

\* C1 witness: the breaker is OPEN while a request that was admitted
\* earlier is still in flight (its record_success could come while OPEN).
C1_Witness ==
    /\ mcp_circuit_breaker.state = OPEN
    /\ \E p \in Requests : pc[p] = "running"

\* C2: failure_count is the number of record_failure calls since the fresh
\* breaker or the last record_success; the call that makes it N leaves the
\* breaker CLOSED when N is below the threshold and OPEN when N is the
\* threshold.
C2_OpensAtThreshold ==
    [][ FailureRecorded =>
          /\ mcp_circuit_breaker'.failure_count < FailureThreshold
                => mcp_circuit_breaker'.state = CLOSED
          /\ mcp_circuit_breaker'.failure_count = FailureThreshold
                => mcp_circuit_breaker'.state = OPEN ]_vars

\* C2 witness: the threshold-th consecutive failure has just been recorded.
C2_Witness ==
    /\ mcp_circuit_breaker.failure_count = FailureThreshold
    /\ mcp_circuit_breaker.state = OPEN
    /\ mcp_circuit_breaker.last_failure_time = now

\* C3: a can_execute call (by a chat request at "check", or by /health)
\* made while the breaker is OPEN returns False and leaves it OPEN when
\* now - last_failure_time <= recovery_timeout, and returns True and makes
\* it HALF_OPEN in the same step otherwise.
C3_OpenCanExecute ==
    [][ mcp_circuit_breaker.state = OPEN =>
          /\ \A p \in Requests :
                (pc[p] = "check" /\ pc'[p] # "check") =>
                   IF now - mcp_circuit_breaker.last_failure_time
                         <= RecoveryTimeout
                   THEN /\ pc'[p] = "done"
                        /\ error'[p].text = {"circuit breaker"}
                        /\ mcp_circuit_breaker'.state = OPEN
                   ELSE /\ pc'[p] = "attempt"
                        /\ mcp_circuit_breaker'.state = HALF_OPEN
          /\ (health = NoHealth /\ health' # NoHealth) =>
                   IF now - mcp_circuit_breaker.last_failure_time
                         <= RecoveryTimeout
                   THEN /\ ~ health'.can_execute
                        /\ mcp_circuit_breaker'.state = OPEN
                   ELSE /\ health'.can_execute
                        /\ mcp_circuit_breaker'.state = HALF_OPEN ]_vars

\* C3 witness: a chat request has just been denied at the very end of the
\* recovery timeout (elapsed time = recovery_timeout).
C3_Witness ==
    /\ mcp_circuit_breaker.state = OPEN
    /\ now - mcp_circuit_breaker.last_failure_time = RecoveryTimeout
    /\ \E p \in Requests :
          /\ pc[p] = "done"
          /\ error[p].text = {"circuit breaker"}

\* C4: a record_failure made while the breaker is HALF_OPEN moves it to
\* OPEN and sets last_failure_time to now; it never leaves the breaker
\* HALF_OPEN or CLOSED.
C4_HalfOpenFailureReopens ==
    [][ (mcp_circuit_breaker.state = HALF_OPEN /\ FailureRecorded) =>
          /\ mcp_circuit_breaker'.state = OPEN
          /\ mcp_circuit_breaker'.last_failure_time = now ]_vars

\* C4 witness: a request admitted as the trial (its first attempt failed
\* just now, with failure_count already at the threshold before it) has
\* re-opened the breaker.
C4_Witness ==
    /\ mcp_circuit_breaker.state = OPEN
    /\ mcp_circuit_breaker.failure_count > FailureThreshold
    /\ mcp_circuit_breaker.last_failure_time = now
    /\ \E p \in Requests :
          /\ pc[p] = "backoff"
          /\ attempt[p] = 0
          /\ wake[p] = << now + Delay(0) >>

\* The requests that can_execute has admitted and whose first connection
\* attempt has not been made yet.
Admitted == { p \in Requests : pc[p] = "attempt" /\ attempt[p] = 0 }

\* C5: while the breaker is HALF_OPEN at most one request is between its
\* admission by can_execute and its connection attempt, and the step after
\* an admission in HALF_OPEN is that request's attempt with its
\* record_success or record_failure, no other request moving in between:
\* between a transition to HALF_OPEN and the next record_success or
\* record_failure at most one request is admitted.
C5_SingleTrial ==
    /\ [](mcp_circuit_breaker.state = HALF_OPEN => Cardinality(Admitted) <= 1)
    /\ [][ \A p \in Requests :
             (pc[p] = "attempt" /\ mcp_circuit_breaker.state = HALF_OPEN) =>
                /\ pc'[p] # "attempt"
                /\ mcp_circuit_breaker'.state \in {CLOSED, OPEN}
                /\ \A q \in Requests \ {p} : pc'[q] = pc[q] ]_vars

\* C5 witness: a request has been admitted as the trial in HALF_OPEN while
\* another request is in flight.
C5_Witness ==
    /\ mcp_circuit_breaker.state = HALF_OPEN
    /\ \E p \in Admitted :
          \E q \in Requests \ {p} : pc[q] \in {"backoff", "connecting", "running"}

\* C6 (as claimed): the breaker is consulted before every connection
\* attempt, so no request is about to make an attempt while the breaker
\* denies execution.
C6_EveryAttemptAdmitted ==
    \A p \in Requests : pc[p] = "attempt" => ~ Denies

\* C7 (as claimed): the outer deadline covers connection acquisition: a
\* request inside a connection attempt or suspended in a backoff delay is
\* under an armed deadline that can cancel it.
C7_DeadlineCoversAcquisition ==
    \A p \in Requests : pc[p] \in {"attempt", "backoff"} => deadline[p]

\* C8 (as claimed): with requests sent one at a time, a request that ends
\* with the slow-service advisory leaves failure_count exactly one above
\* its value when the request arrived.
C8_CountIsOneMore ==
    \A p \in Requests :
        (pc[p] = "done" /\ response[p].kind = "slow_service") =>
            mcp_circuit_breaker.failure_count = count_at_arrival + 1

\* C8 (amended): with requests sent one at a time, a request whose outer
\* deadline expires returns the slow-service advisory, and only such a
\* request does; failure_count is then exactly 1, whatever its value when
\* the request arrived (record_success at construction had reset it to 0).
C8_TimeoutLeavesCountOne ==
    \A p \in Requests :
        pc[p] = "done" =>
            /\ (error[p].state = "deadline") = (response[p].kind = "slow_service")
            /\ response[p].kind = "slow_service" =>
                  /\ mcp_circuit_breaker.failure_count = 1
                  /\ mcp_circuit_breaker.last_failure_time = now

\* C8 witness: the agent call of a request that arrived with failure_count
\* at 2 or more has been cancelled by the deadline.
C8_Witness ==
    \E p \in Requests :
        /\ pc[p] = "done"
        /\ response[p].kind = "slow_service"
        /\ connection[p] = "closed"
        /\ count_at_arrival >= 2

\* C9 (as claimed): every request that failed with an error other than the
\* outer-deadline timeout got the advisory of its error's class; a request
\* denied by the breaker got the breaker-unavailable advisory.
C9_ErrorsAreClassified ==
    \A p \in Requests :
        (pc[p] = "done" /\ error[p].raised /\ error[p].state # "deadline") =>
            response[p].kind = Classify(error[p].text)

\* The operations of an acquisition whose first k attempts fail: k rounds
\* of attempt, record_failure and sleep of BaseDelay * 2^(i-1).
RECURSIVE FailedRounds(_)
FailedRounds(k) ==
    IF k = 0 THEN << >>
    ELSE FailedRounds(k - 1) \o
           << [op |-> "attempt", arg |-> k],
              [op |-> "record_failure", arg |-> 0],
              [op |-> "sleep", arg |-> BaseDelay * (2 ^ (k - 1))] >>

\* C10: an acquisition that has returned a connection after k failed
\* attempts (k in 0..2) did, in order: the breaker check, k rounds of
\* attempt, record_failure and backoff of BaseDelay * 2^(i-1), then attempt
\* k+1 and one record_success, and nothing after; the connection is the one
\* constructed by attempt k+1.
C10_FailThenSucceed ==
    \A p \in Requests :
        mcp_server[p] # 0 =>
            /\ attempt[p] \in 0..(MaxRetries - 1)
            /\ mcp_server[p] = attempt[p] + 1
            /\ log[p] = << [op |-> "can_execute", arg |-> 1] >>
                          \o FailedRounds(attempt[p])
                          \o << [op |-> "attempt", arg |-> attempt[p] + 1],
                                [op |-> "record_success", arg |-> 0] >>

\* C10 witness: the connection was constructed by the third attempt, after
\* two failures, and the request has gone on to run the agent.
C10_Witness ==
    \E p \in Requests :
        /\ mcp_server[p] = MaxRetries
        /\ pc[p] = "running"

\* C11: when the breaker denies execution at the check of an acquisition,
\* the call raises at once an exception naming the breaker (and its state,
\* OPEN), having made no connection attempt and no backoff sleep, and the
\* breaker's state, failure_count and last_failure_time are as before.
C11_DenialLeavesBreaker ==
    [][ \A p \in Requests :
          (pc[p] = "check" /\ Denies) =>
             /\ pc'[p] = "done"
             /\ error'[p].raised
             /\ error'[p].text = {"circuit breaker"}
             /\ error'[p].state = mcp_circuit_breaker.state
             /\ log'[p] = << [op |-> "can_execute", arg |-> 0] >>
             /\ mcp_server'[p] = 0
             /\ wake'[p] = << >>
             /\ mcp_circuit_breaker' = mcp_circuit_breaker ]_vars

\* C11 witness: a request has been denied by an OPEN breaker whose count
\* is above the threshold, some time after the last failure.
C11_Witness ==
    \E p \in Requests :
        /\ pc[p] = "done"
        /\ error[p].text = {"circuit breaker"}
        /\ error[p].state = OPEN
        /\ log[p] = << [op |-> "can_execute", arg |-> 0] >>
        /\ mcp_circuit_breaker.state = OPEN
        /\ mcp_circuit_breaker.failure_count > FailureThreshold
        /\ now > mcp_circuit_breaker.last_failure_time

\* C13: a request whose user_message_count (1 + user-role messages of the
\* history) exceeds 5 gets the limit-reached response with that count in
\* the step of its arrival, with no breaker check, connection attempt or
\* agent call, and the breaker unchanged; one with a count of 5 or less
\* goes on to the breaker check of connection acquisition.
C13_TurnLimit ==
    [][ \A p \in Requests :
          (pc[p] = "idle" /\ pc'[p] # "idle") =>
             IF user_message_count'[p] > 5
             THEN /\ pc'[p] = "done"
                  /\ response'[p] = [response'[p] EXCEPT
                                       !.kind = "limit_reached",
                                       !.user_message_count =
                                           user_message_count'[p]]
                  /\ log'[p] = << >>
                  /\ mcp_server'[p] = 0
                  /\ connection'[p] = "none"
                  /\ mcp_circuit_breaker' = mcp_circuit_breaker
             ELSE /\ pc'[p] = "check"
                  /\ response'[p].kind = "none" ]_vars

\* C13 witness: a sixth user message has been turned away while the
\* breaker holds failures of earlier requests.
C13_Witness ==
    \E p \in Requests :
        /\ pc[p] = "done"
        /\ response[p].kind = "limit_reached"
        /\ response[p].user_message_count = TurnLimit + 1
        /\ log[p] = << >>
        /\ mcp_circuit_breaker.failure_count > 0

\* C14 (as claimed): a /health request leaves the breaker's state,
\* failure_count and last_failure_time as they were.
C14_HealthReadsOnly ==
    [][ (health = NoHealth /\ health' # NoHealth) =>
           mcp_circuit_breaker' = mcp_circuit_breaker ]_vars

\* The kinds of text a ChatResponse carries.
ResponseKinds ==
    { "limit_reached", "final_output", "slow_service", "breaker_unavailable",
      "connection_timed_out", "unable_to_connect", "configuration_issue",
      "service_error", "technical_difficulties" }

IsToolItem(item) ==
    item.type \in {"tool_call_item", "tool_call_output_item"}

\* The record of a tool call given in shape (a) and in shape (b).
RecordOfCall(d) ==
    [function |->
        [name |-> IF d.name = Missing THEN "unknown" ELSE d.name,
         arguments |-> IF d.arguments = Missing THEN "{}" ELSE d.arguments],
     content |-> IF d.result = Missing THEN "No result" ELSE d.result]
RecordOfItem(i) ==
    [function |->
        [name |-> IF i.name = Missing THEN "unknown" ELSE i.name,
         arguments |-> IF i.arguments = Missing THEN "{}" ELSE i.arguments],
     content |-> IF i.output = Missing THEN "No result" ELSE i.output]

\* C15: the tool usage of a successful response is made from
\* result.tool_calls when that is present and not empty, and from the items
\* of result.items whose type contains "tool" only otherwise; it has one
\* record per tool call, in order, with has_tools true; it is None when
\* there is no record or when an element cannot be read, and never a
\* dictionary with an empty list.
C15_ToolUsage ==
    \A p \in Requests :
        (pc[p] = "done" /\ result[p] # None) =>
            LET r == result[p][1]
                a == r.tool_calls.val
                b == SelectSeq(r.items.val, IsToolItem)
                fails ==
                    IF a # << >>
                    THEN \E i \in 1..Len(a) : ~a[i].isdict
                    ELSE \E i \in 1..Len(r.items.val) :
                            r.items.val[i].type = "None"
                records ==
                    IF a # << >>
                    THEN [i \in 1..Len(a) |-> RecordOfCall(a[i])]
                    ELSE [i \in 1..Len(b) |-> RecordOfItem(b[i])]
                usage == response[p].tool_usage
            IN  /\ usage # Some([tool_calls |-> << >>, has_tools |-> TRUE])
                /\ IF fails \/ records = << >>
                   THEN usage = None
                   ELSE usage = Some([tool_calls |-> records,
                                      has_tools |-> TRUE])

\* C15 witness: tool_calls is present but empty and items holds two tool
\* items among others; the response reports the two, in order.
C15_Witness ==
    \E p \in Requests :
        /\ pc[p] = "done"
        /\ result[p] # None
        /\ result[p][1].tool_calls = Attribute(<< >>)
        /\ Len(result[p][1].items.val) = 4
        /\ response[p].tool_usage # None
        /\ Len(response[p].tool_usage[1].tool_calls) = 2
        /\ response[p].tool_usage[1].tool_calls[1].content = "1 task"
        /\ response[p].tool_usage[1].tool_calls[2].function.name
               = "search_tasks"

\* The change of the breaker's state in a step is one of the four of the
\* state machine: CLOSED to OPEN by a record_failure that reaches the
\* threshold, OPEN to HALF_OPEN by a can_execute after the recovery timeout,
\* HALF_OPEN to CLOSED by a record_success, HALF_OPEN to OPEN by a
\* record_failure.
StateMachineStep ==
    LET cb == mcp_circuit_breaker
        s == mcp_circuit_breaker.state
        t == mcp_circuit_breaker'.state
    IN  \/ /\ s = CLOSED /\ t = OPEN
           /\ FailureRecorded
           /\ mcp_circuit_breaker'.failure_count >= FailureThreshold
        \/ /\ s = OPEN /\ t = HALF_OPEN
           /\ now - cb.last_failure_time > RecoveryTimeout
           /\ mcp_circuit_breaker' = [cb EXCEPT !.state = HALF_OPEN]
        \/ /\ s = HALF_OPEN /\ t = CLOSED
           /\ mcp_circuit_breaker'.failure_count = 0
        \/ /\ s = HALF_OPEN /\ t = OPEN
           /\ FailureRecorded

\* C16 (as claimed): every change of the breaker's state is one of the
\* four transitions of the state machine; in particular the breaker never
\* goes from OPEN to CLOSED or from CLOSED to HALF_OPEN in one step.
C16_FourTransitions ==
    [][ mcp_circuit_breaker'.state # mcp_circuit_breaker.state
           => StateMachineStep ]_vars

\* C16 (amended): every change of the breaker's state is one of the four
\* transitions of the state machine or the change from OPEN to CLOSED made
\* by a record_success; the breaker never goes from CLOSED to HALF_OPEN.
C16_TransitionsWithReset ==
    [][ mcp_circuit_breaker'.state # mcp_circuit_breaker.state
           => \/ StateMachineStep
              \/ /\ mcp_circuit_breaker.state = OPEN
                 /\ mcp_circuit_breaker'.state = CLOSED
                 /\ mcp_circuit_breaker'.failure_count = 0 ]_vars

\* C16 witness: the breaker is CLOSED with no failure counted exactly
\* RecoveryTimeout after the last failure.  Time passes the backoff delays
\* only while the breaker is OPEN, and can_execute still denies at this
\* instant: a record_success has closed the OPEN breaker.
C16_Witness ==
    /\ mcp_circuit_breaker.state = CLOSED
    /\ mcp_circuit_breaker.failure_count = 0
    /\ now - mcp_circuit_breaker.last_failure_time = RecoveryTimeout
    /\ \E p \in Requests :
          pc[p] = "done" /\ response[p].kind = "final_output"

\* The number of entries of a log with a given operation.
CountOps(l, op) == Cardinality({ i \in 1..Len(l) : l[i].op = op })

\* C17: an acquisition admitted by the breaker whose attempts all fail has
\* made exactly MaxRetries attempts, each followed by one record_failure,
\* has slept after each failed attempt but the last (MaxRetries - 1 sleeps,
\* of BaseDelay * 2^i) and none after the last, and the exception is raised
\* to chat in the step of the last failed attempt.
C17_AllAttemptsFail ==
    /\ [](\A p \in Requests :
            (/\ pc[p] = "done"
             /\ error[p].raised
             /\ error[p].state = "none"
             /\ mcp_server[p] = 0) =>
               /\ attempt[p] = MaxRetries - 1
               /\ log[p] = << [op |-> "can_execute", arg |-> 1] >>
                             \o FailedRounds(MaxRetries - 1)
                             \o << [op |-> "attempt", arg |-> MaxRetries],
                                   [op |-> "record_failure", arg |-> 0] >>
               /\ CountOps(log[p], "attempt") = MaxRetries
               /\ CountOps(log[p], "record_failure") = MaxRetries
               /\ CountOps(log[p], "sleep") = MaxRetries - 1
               /\ CountOps(log[p], "record_success") = 0
               /\ wake[p] = << >>
               /\ error[p].text \in ErrorMessages)
    /\ [][ \A p \in Requests :
             (pc[p] = "attempt" /\ pc'[p] = "done") =>
                /\ attempt[p] = MaxRetries - 1
                /\ FailureRecorded
                /\ error'[p].raised
                /\ now' = now ]_vars

\* C17 witness: a request has used up its three attempts, 2 s and 4 s
\* apart, and the exception has reached chat.
C17_Witness ==
    \E p \in Requests :
        /\ pc[p] = "done"
        /\ error[p].raised
        /\ error[p].state = "none"
        /\ mcp_server[p] = 0
        /\ Len(log[p]) = 3 * MaxRetries
        /\ now >= BaseDelay + 2 * BaseDelay
        /\ mcp_circuit_breaker.failure_count >= MaxRetries

\* C19: the MCP connection opened for a request is closed on every way out
\* of the request: a connection is open only while its request is inside
\* the agent run, and a request that holds its response (after success,
\* agent error or timeout) has no open connection.
C19_ConnectionReleased ==
    \A p \in Requests :
        /\ connection[p] = "open" => pc[p] = "running"
        /\ pc[p] \in {"done", "idle"} => connection[p] # "open"
        /\ (pc[p] = "done" /\ result[p] # None) => connection[p] = "closed"

\* C19 witness: the agent run of a request failed after its connection was
\* opened; the request holds its advisory and the connection is closed.
C19_Witness ==
    \E p \in Requests :
        /\ pc[p] = "done"
        /\ error[p].raised
        /\ error[p].state = "none"
        /\ mcp_server[p] # 0
        /\ connection[p] = "closed"

\* C20: with requests sent one at a time and every connection constructed
\* at the first attempt, failure_count is 0 whenever an agent is about to
\* run or running, it never exceeds 1, and the breaker is always CLOSED,
\* however many requests in a row fail or time out after construction.
C20_CountAtMostOne ==
    /\ mcp_circuit_breaker.state = CLOSED
    /\ mcp_circuit_breaker.failure_count <= 1
    /\ \A p \in Requests :
          pc[p] \in {"connecting", "running"} =>
              mcp_circuit_breaker.failure_count = 0

\* C20 witness: the last request of the run has failed after its
\* construction, as the request before it had; the count is 1.
C20_Witness ==
    /\ arrivals = MaxArrivals
    /\ count_at_arrival = 1
    /\ mcp_circuit_breaker.failure_count = 1
    /\ \E p \in Requests :
          /\ pc[p] = "done"
          /\ error[p].raised
          /\ mcp_server[p] = 1

\* C18: whenever the breaker is OPEN (and the run may still let a request
\* through: arrivals < MaxArrivals) it is later not OPEN, given that time
\* advances, chat requests keep arriving and handlers run; this with any
\* number of requests denied in between.
C18_LeavesOpen ==
    (mcp_circuit_breaker.state = OPEN /\ arrivals < MaxArrivals)
        ~> (mcp_circuit_breaker.state # OPEN)

\* C18 witness: requests were denied until the recovery timeout was over,
\* and the chat request that came next has been let through: the breaker
\* is HALF_OPEN.
C18_Witness ==
    /\ mcp_circuit_breaker.state = HALF_OPEN
    /\ now - mcp_circuit_breaker.last_failure_time > RecoveryTimeout
    /\ arrivals < MaxArrivals
    /\ health = NoHealth
    /\ \E p \in Requests :
          /\ pc[p] = "attempt"
          /\ log[p] = << [op |-> "can_execute", arg |-> 1] >>

====
